---------------------------- MODULE Spec2Model ----------------------------
(***************************************************************************)
(* A model of shared-github-internals: the git helpers of src/src/git.ts   *)
(* (references, temporary references, pull request commits) and the test   *)
(* fixtures of src/src/tests/git.ts (remote and local repository builders  *)
(* and readers).  Text is modelled as a sequence of one-character strings. *)
(***************************************************************************)
EXTENDS Naturals, Sequences, FiniteSets, TLC

VARIABLES
  lnPc,        \* position of the content round trip: "lines", "content", "split"
  lnLines,     \* the CommitLines given to getContent
  lnContent,   \* the CommitContent getContent returned
  lnResult     \* the CommitLines getLines returned

linesVars == <<lnPc, lnLines, lnContent, lnResult>>

VARIABLES
  refs,        \* the remote's references: fully qualified name -> Sha
  uuidCount,   \* how many UUIDs generateUuid has handed out
  wt           \* the withTemporaryReference calls, one record per caller

tempVars == <<wt>>

VARIABLES
  pgPages,     \* the pages in which the host serves the pull request's commits
  pgPc,        \* position of fetchCommits / fetchCommitsDetails
  pgResponse,  \* the page the variable response holds (0: none yet)
  pgDetails,   \* the array details
  pgShas       \* what fetchCommits returned

pageVars == <<pgPages, pgPc, pgResponse, pgDetails, pgShas>>

remoteRefVars == <<refs, uuidCount>>

VARIABLES
  state,       \* the RepoState given to createReferences and createGitRepo
  blobs,       \* the remote's blobs (their Shas)
  trees,       \* the remote's trees (their Shas)
  commits,     \* the remote's commits, in the order of their creation
  cr,          \* the createReferences invocations, one record each
  remoteRead   \* the last call of fetchReferenceCommits and what it returned

objectVars == <<blobs, trees, commits>>

builderVars == <<state, cr, remoteRead>>

VARIABLES
  lc,          \* the local repository: the directory createGitRepo returns
  lb,          \* position of createGitRepo
  lr           \* the call of getReferenceCommitsFromGitRepo

localVars == <<lc, lb, lr>>

VARIABLES
  fc           \* the call of fetchReferenceCommitsFromSha and its nested calls

chainVars == <<fc>>

vars == <<linesVars, remoteRefVars, tempVars, pageVars, objectVars, builderVars,
          localVars, chainVars>>

(***************************************************************************)
(* Bounds of the model.                                                    *)
(***************************************************************************)
MaxLines == 2
MaxLineLen == 2
NumCallers == 2
NumInvocations == 2
MaxCommits == 2
MaxPages == 3
MaxPerPage == 2

MaxChain == 4
MaxRefCommits == 3

(***************************************************************************)
(* Text helpers (JavaScript's Array.prototype.join and                     *)
(* String.prototype.split with a non-empty separator).                     *)
(***************************************************************************)
EOL == "\n"

SeqsUpTo(S, n) == UNION {[1..k -> S] : k \in 0..n}

NonEmptySeqsUpTo(S, n) == UNION {[1..k -> S] : k \in 1..n}

RECURSIVE Join(_, _)
Join(parts, separator) ==
  IF parts = <<>> THEN <<>>
  ELSE IF Len(parts) = 1 THEN parts[1]
  ELSE parts[1] \o separator \o Join(Tail(parts), separator)

\* The least index at which separator occurs in text, 0 when it does not.
IndexOf(text, separator) ==
  LET hits == {i \in 1..(Len(text) + 1 - Len(separator)) :
                 SubSeq(text, i, i + Len(separator) - 1) = separator}
  IN IF hits = {} THEN 0 ELSE CHOOSE i \in hits : \A j \in hits : i <= j

RECURSIVE Split(_, _)
Split(text, separator) ==
  LET i == IndexOf(text, separator)
  IN IF i = 0 THEN <<text>>
     ELSE <<SubSeq(text, 1, i - 1)>>
          \o Split(SubSeq(text, i + Len(separator), Len(text)), separator)

lineSeparator == <<EOL, EOL>>

getContentSingleEOL(lines) == Join(lines, <<EOL>>)

getContent(lines) == Join(lines, lineSeparator)

getLines(content) == Split(content, lineSeparator)

InitLinesIdle ==
  /\ lnPc = "idle"
  /\ lnLines = <<>>
  /\ lnContent = <<>>
  /\ lnResult = <<>>

IdleChain ==
  [pc |-> "idle", sha |-> "none", stack |-> <<>>, result |-> <<>>,
   contentFetches |-> 0, commitFetches |-> 0, depth |-> 0]

InitChainIdle == fc = IdleChain

InitPagesIdle ==
  /\ pgPages = <<>>
  /\ pgPc = "idle"
  /\ pgResponse = 0
  /\ pgDetails = <<>>
  /\ pgShas = <<>>

\* The Sha of the n-th commit an object store has created.
CommitSha(n) == "c" \o ToString(n)

NoSha == "none"

(***************************************************************************)
(* The fixtures (src/src/tests/git.ts): Commit, ReferenceState, RepoState. *)
(* refsCommits is a JavaScript object: refNames lists its keys in the      *)
(* order Object.keys yields them.                                          *)
(***************************************************************************)
Commit(lines, message) == [lines |-> lines, message |-> message]

CommitPool ==
  {Commit(<< <<"a">> >>, <<"m">>),
   Commit(<< <<"a">>, <<"b">> >>, <<"n">>),
   Commit(<< <<"b">> >>, <<" ", "m">>)}

RefNamesPool ==
  {<<>>, <<"master">>, <<"feature">>,
   <<"master", "feature">>, <<"feature", "master">>}

Range(f) == {f[x] : x \in DOMAIN f}

RepoStates ==
  UNION {
    {[initialCommit |-> c, refNames |-> names, refsCommits |-> rc] :
       c \in CommitPool,
       rc \in [Range(names) -> SeqsUpTo(CommitPool, MaxCommits)]} :
    names \in RefNamesPool}

EmptyRepoState ==
  [initialCommit |-> Commit(<<>>, <<>>), refNames |-> <<>>,
   refsCommits |-> [n \in {} |-> <<>>]]

Invocations == 1..NumInvocations

IdleBranch ==
  [pc |-> "idle", k |-> 1, shas |-> <<>>, blob |-> NoSha, tree |-> NoSha,
   temporaryRef |-> "", del |-> "none"]

IdleInvocation ==
  [pc |-> "idle", initialCommitSha |-> NoSha, blob |-> NoSha, tree |-> NoSha,
   br |-> <<>>, delPc |-> "none", refsDetails |-> <<>>]

NoRead == [inv |-> 0, ref |-> "", result |-> <<>>]

InitObjects ==
  /\ blobs = {}
  /\ trees = {}
  /\ commits = <<>>

InitBuilderIdle ==
  /\ state = EmptyRepoState
  /\ cr = [i \in Invocations |-> IdleInvocation]
  /\ remoteRead = NoRead

NoFile == <<"(no file)">>

NoBranches == [n \in {} |-> NoSha]

NoDirectory ==
  [commits |-> <<>>, branches |-> NoBranches,
   head |-> [branch |-> "", sha |-> NoSha], file |-> NoFile, index |-> NoFile]

IdleReader ==
  [pc |-> "idle", reference |-> "", shas |-> <<>>, idx |-> 1, commits |-> <<>>,
   pending |-> {}, content |-> <<>>, message |-> <<>>]

InitLocalIdle ==
  /\ lc = NoDirectory
  /\ lb = [pc |-> "idle", j |-> 0, k |-> 1, made |-> <<>>]
  /\ lr = IdleReader

\* The tests await every call of a builder or a reader before they make the
\* next one: a call is made when no call on the other repository is in flight.
RemoteQuiescent ==
  \A i \in Invocations :
    /\ cr[i].pc \in {"idle", "resolved", "rejected"}
    /\ \A b \in DOMAIN cr[i].br :
         /\ cr[i].br[b].pc \in {"done", "failed"}
         /\ cr[i].br[b].del # "pending"

LocalQuiescent ==
  /\ lb.pc \in {"idle", "done", "failed"}
  /\ lr.pc \in {"idle", "returned"}

(***************************************************************************)
(* Reference names (src/src/git.ts).  The remote addresses a reference by  *)
(* its fully qualified name; the get, update and delete endpoints take the *)
(* name without its "refs/" prefix, the create endpoint takes it whole.    *)
(***************************************************************************)
UuidOf(n) == "u" \o ToString(n)

generateUniqueRefNoUuid(ref, uuid) == ref

generateUniqueRef(ref, uuid) == ref \o "-" \o uuid

getHeadRef(ref) == "heads/" \o ref

getFullyQualifiedRefWithoutRefs(ref) == getHeadRef(ref)

getFullyQualifiedRef(ref) == "refs/" \o getHeadRef(ref)

\* The reference a get, update or delete endpoint addresses.
EndpointRef(ref) == "refs/" \o ref

RefExists(rs, name) == name \in DOMAIN rs

\* octokit.gitdata.getReference: the Sha, or "NotFound".
fetchReferenceSha(rs, ref) ==
  IF RefExists(rs, EndpointRef(getHeadRef(ref)))
  THEN rs[EndpointRef(getHeadRef(ref))]
  ELSE "NotFound"

\* octokit.gitdata.createReference: the remote refuses a name that exists.
CanCreateReference(rs, ref) == ~RefExists(rs, getFullyQualifiedRef(ref))

createReference(rs, ref, sha) ==
  [n \in (DOMAIN rs) \cup {getFullyQualifiedRef(ref)} |->
     IF n = getFullyQualifiedRef(ref) THEN sha ELSE rs[n]]

\* octokit.gitdata.deleteReference: the remote refuses a name that does not exist.
CanDeleteReference(rs, ref) == RefExists(rs, EndpointRef(getHeadRef(ref)))

deleteReference(rs, ref) ==
  [n \in (DOMAIN rs) \ {EndpointRef(getHeadRef(ref))} |-> rs[n]]

NoRefs == [n \in {} |-> NoSha]

InitRemoteRefs ==
  /\ refs = NoRefs
  /\ uuidCount = 0

(***************************************************************************)
(* withTemporaryReference (src/src/git.ts): createTemporaryReference, the  *)
(* action, and the deletion in the finally block.                          *)
(***************************************************************************)
Callers == 1..NumCallers

BaseRefs == {"master", "feature"}

CallerShas == {CommitSha(1), CommitSha(2)}

IdleCall ==
  [pc |-> "idle", ref |-> "", sha |-> NoSha, temporaryRef |-> "",
   created |-> FALSE, action |-> "pending", actionArg |-> "",
   deleteCalls |-> 0, deleteOk |-> "none", outcome |-> "none"]

InitTempIdle == wt = [c \in Callers |-> IdleCall]

\* try { return await action(temporaryRef); } finally { ... }: the finally
\* block is entered however the action settles.
AfterActionSkipsFinallyOnError(actionOutcome) ==
  IF actionOutcome = "error" THEN "threw" ELSE "deleting"

AfterAction(actionOutcome) == "deleting"

\* What the async function settles with once the finally block is over: a
\* failure of the block replaces the completion of the try block.
OutcomeFinallyReturns(actionOutcome, deleteOk) ==
  IF ~deleteOk THEN "DeleteError" ELSE "Value"

OutcomeIgnoresDeleteFailure(actionOutcome, deleteOk) ==
  IF actionOutcome = "error" THEN "ActionError" ELSE "Value"

withTemporaryReferenceOutcome(actionOutcome, deleteOk) ==
  IF ~deleteOk THEN "DeleteError"
  ELSE IF actionOutcome = "error" THEN "ActionError"
  ELSE "Value"

\* withTemporaryReference is called: createTemporaryReference generates the name.
WtCall(c) ==
  /\ wt[c].pc = "idle"
  /\ \E ref \in BaseRefs, sha \in CallerShas :
       wt' = [wt EXCEPT ![c] =
                [@ EXCEPT !.pc = "creating", !.ref = ref, !.sha = sha,
                          !.temporaryRef =
                            generateUniqueRef(ref, UuidOf(uuidCount + 1))]]
  /\ uuidCount' = uuidCount + 1
  /\ UNCHANGED refs
  /\ UNCHANGED <<linesVars, pageVars, objectVars, builderVars, localVars,
                 chainVars>>

\* await createReference(...): the remote creates the reference.
WtCreateReference(c) ==
  /\ wt[c].pc = "creating"
  /\ CanCreateReference(refs, wt[c].temporaryRef)
  /\ refs' = createReference(refs, wt[c].temporaryRef, wt[c].sha)
  /\ wt' = [wt EXCEPT ![c] = [@ EXCEPT !.pc = "acting", !.created = TRUE]]
  /\ UNCHANGED uuidCount
  /\ UNCHANGED <<linesVars, pageVars, objectVars, builderVars, localVars,
                 chainVars>>

\* The await of createTemporaryReference is before the try block: a failure
\* of it leaves withTemporaryReference at once.
AfterCreateFailureRunsFinally == "deleting"

AfterCreateFailure == "threw"

\* await createReference(...) fails: withTemporaryReference fails with it.
WtCreateReferenceFails(c) ==
  /\ wt[c].pc = "creating"
  /\ wt' = [wt EXCEPT ![c] = [@ EXCEPT !.pc = AfterCreateFailure,
                                       !.outcome = "CreateError"]]
  /\ UNCHANGED remoteRefVars
  /\ UNCHANGED <<linesVars, pageVars, objectVars, builderVars, localVars,
                 chainVars>>

\* await action(temporaryRef) settles, with a value or with a failure.
WtAction(c) ==
  /\ wt[c].pc = "acting"
  /\ \E actionOutcome \in {"value", "error"} :
       wt' = [wt EXCEPT ![c] =
                [@ EXCEPT !.pc = AfterAction(actionOutcome),
                          !.action = actionOutcome,
                          !.actionArg = wt[c].temporaryRef,
                          !.outcome =
                            IF AfterAction(actionOutcome) = "threw"
                            THEN "ActionError" ELSE "none"]]
  /\ UNCHANGED remoteRefVars
  /\ UNCHANGED <<linesVars, pageVars, objectVars, builderVars, localVars,
                 chainVars>>

Settled(actionOutcome, deleteOk) ==
  IF withTemporaryReferenceOutcome(actionOutcome, deleteOk) = "Value"
  THEN "returned" ELSE "threw"

\* finally { await deleteTemporaryReference(); }: the deletion succeeds.
WtDelete(c) ==
  /\ wt[c].pc = "deleting"
  /\ CanDeleteReference(refs, wt[c].temporaryRef)
  /\ refs' = deleteReference(refs, wt[c].temporaryRef)
  /\ wt' = [wt EXCEPT ![c] =
              [@ EXCEPT !.pc = Settled(wt[c].action, TRUE),
                        !.deleteCalls = @ + 1,
                        !.deleteOk = "yes",
                        !.outcome =
                          withTemporaryReferenceOutcome(wt[c].action, TRUE)]]
  /\ UNCHANGED uuidCount
  /\ UNCHANGED <<linesVars, pageVars, objectVars, builderVars, localVars,
                 chainVars>>

\* finally { await deleteTemporaryReference(); }: the deletion fails.
WtDeleteFails(c) ==
  /\ wt[c].pc = "deleting"
  /\ wt' = [wt EXCEPT ![c] =
              [@ EXCEPT !.pc = Settled(wt[c].action, FALSE),
                        !.deleteCalls = @ + 1,
                        !.deleteOk = "no",
                        !.outcome =
                          withTemporaryReferenceOutcome(wt[c].action, FALSE)]]
  /\ UNCHANGED remoteRefVars
  /\ UNCHANGED <<linesVars, pageVars, objectVars, builderVars, localVars,
                 chainVars>>

InitTemp ==
  /\ InitLinesIdle
  /\ InitRemoteRefs
  /\ InitTempIdle
  /\ InitPagesIdle
  /\ InitChainIdle
  /\ InitObjects
  /\ InitBuilderIdle
  /\ InitLocalIdle

NextTemp ==
  \E c \in Callers :
    \/ WtCall(c)
    \/ WtCreateReference(c)
    \/ WtCreateReferenceFails(c)
    \/ WtAction(c)
    \/ WtDelete(c)
    \/ WtDeleteFails(c)

SpecTemp == InitTemp /\ [][NextTemp]_vars

WtSettled(c) == wt[c].pc \in {"returned", "threw"}

\* C1: once the temporary reference was created, deleteTemporaryReference is
\* invoked exactly once, after the action has settled, on every exit path.
C1_DeleteExactlyOnce ==
  \A c \in Callers :
    /\ wt[c].deleteCalls <= 1
    /\ wt[c].deleteCalls = 1 => (wt[c].created /\ wt[c].action # "pending")
    /\ (WtSettled(c) /\ wt[c].created) => wt[c].deleteCalls = 1

C1_Witness ==
  \E c \in Callers :
    /\ wt[c].pc = "threw"
    /\ wt[c].action = "error"
    /\ wt[c].deleteCalls = 1

\* C2: when the action fails and the deletion succeeds, the call fails with
\* the action's failure, and the reference is gone when the caller sees it.
C2_ActionFailureAfterCleanup ==
  \A c \in Callers :
    (WtSettled(c) /\ wt[c].action = "error" /\ wt[c].deleteOk = "yes")
    => /\ wt[c].pc = "threw"
       /\ wt[c].outcome = "ActionError"
       /\ fetchReferenceSha(refs, wt[c].temporaryRef) = "NotFound"

C2_Witness ==
  \E c \in Callers :
    /\ wt[c].pc = "threw"
    /\ wt[c].action = "error"
    /\ wt[c].deleteOk = "yes"
    /\ wt[c].outcome = "ActionError"

\* C3: when the action fails and the deletion fails too, the failure the
\* caller receives is the action's.
C3_PrimaryFailureSurfaces ==
  \A c \in Callers :
    (WtSettled(c) /\ wt[c].action = "error" /\ wt[c].deleteOk = "no")
    => wt[c].outcome = "ActionError"

(***************************************************************************)
(* fetchCommitsDetails and fetchCommits (src/src/git.ts): the commits of a *)
(* pull request, which the host serves in pages.                           *)
(***************************************************************************)
RECURSIVE SumTo(_, _)
SumTo(sizes, n) == IF n = 0 THEN 0 ELSE sizes[n] + SumTo(sizes, n - 1)

\* What the host lists for the commit with this Sha.
ResponseItem(sha) ==
  [commit |-> [author |-> <<"author", sha>>,
               committer |-> <<"committer", sha>>,
               message |-> <<"message", sha>>,
               tree |-> [sha |-> <<"tree", sha>>]],
   sha |-> sha]

\* The pages of a pull request whose commits 1, 2, ... are served in pages of
\* these sizes.
PagesOfSizes(sizes) ==
  [p \in 1..Len(sizes) |->
     [k \in 1..sizes[p] |-> ResponseItem(SumTo(sizes, p - 1) + k)]]

RECURSIVE Flatten(_)
Flatten(seqs) == IF seqs = <<>> THEN <<>> ELSE Head(seqs) \o Flatten(Tail(seqs))

getCommitsDetails(response) ==
  [k \in 1..Len(response) |->
     [author |-> response[k].commit.author,
      committer |-> response[k].commit.committer,
      message |-> response[k].commit.message,
      sha |-> response[k].sha,
      tree |-> response[k].commit.tree.sha]]

\* octokit.hasNextPage(response): the host names a next page.
hasNextPageOnlyAfterFirst(pages, response) == response < Len(pages) /\ response < 2

hasNextPage(pages, response) == response < Len(pages)

InitPages ==
  /\ InitLinesIdle
  /\ InitRemoteRefs
  /\ InitTempIdle
  /\ InitObjects
  /\ InitBuilderIdle
  /\ InitLocalIdle
  /\ InitChainIdle
  /\ pgPages \in {PagesOfSizes(sizes) :
                    sizes \in NonEmptySeqsUpTo(0..MaxPerPage, MaxPages)}
  /\ pgPc = "idle"
  /\ pgResponse = 0
  /\ pgDetails = <<>>
  /\ pgShas = <<>>

\* let response = await octokit.pullRequests.getCommits(...);
\* const details = getCommitsDetails(response);
FetchFirstPage ==
  /\ pgPc = "idle"
  /\ pgResponse' = 1
  /\ pgDetails' = getCommitsDetails(pgPages[1])
  /\ pgPc' = "loop"
  /\ UNCHANGED <<pgPages, pgShas>>
  /\ UNCHANGED <<linesVars, remoteRefVars, tempVars, objectVars, builderVars,
                 localVars, chainVars>>

\* while (octokit.hasNextPage(response)) { response = await
\* octokit.getNextPage(response); details.push(...getCommitsDetails(response)); }
FetchNextPage ==
  /\ pgPc = "loop"
  /\ hasNextPage(pgPages, pgResponse)
  /\ pgResponse' = pgResponse + 1
  /\ pgDetails' = pgDetails \o getCommitsDetails(pgPages[pgResponse + 1])
  /\ UNCHANGED <<pgPages, pgPc, pgShas>>
  /\ UNCHANGED <<linesVars, remoteRefVars, tempVars, objectVars, builderVars,
                 localVars, chainVars>>

\* A request for a page fails: fetchCommitsDetails and fetchCommits fail.
FetchPageFails ==
  /\ \/ pgPc = "idle"
     \/ pgPc = "loop" /\ hasNextPage(pgPages, pgResponse)
  /\ pgPc' = "failed"
  /\ UNCHANGED <<pgPages, pgResponse, pgDetails, pgShas>>
  /\ UNCHANGED <<linesVars, remoteRefVars, tempVars, objectVars, builderVars,
                 localVars, chainVars>>

\* return details; and, in fetchCommits, return details.map(({ sha }) => sha);
ReturnCommits ==
  /\ pgPc = "loop"
  /\ ~hasNextPage(pgPages, pgResponse)
  /\ pgShas' = [k \in 1..Len(pgDetails) |-> pgDetails[k].sha]
  /\ pgPc' = "returned"
  /\ UNCHANGED <<pgPages, pgResponse, pgDetails>>
  /\ UNCHANGED <<linesVars, remoteRefVars, tempVars, objectVars, builderVars,
                 localVars, chainVars>>

NextPages ==
  \/ FetchFirstPage
  \/ FetchNextPage
  \/ FetchPageFails
  \/ ReturnCommits

SpecPages == InitPages /\ [][NextPages]_vars

\* C9: fetchCommitsDetails requests pages until the host names no next one
\* and returns the concatenation of all pages in the order received, every
\* commit once; fetchCommits returns the Shas of that sequence in that order.
C9_AllPagesInOrder ==
  pgPc = "returned" =>
    /\ pgResponse = Len(pgPages)
    /\ pgDetails = getCommitsDetails(Flatten(pgPages))
    /\ Len(pgDetails) = SumTo([p \in 1..Len(pgPages) |-> Len(pgPages[p])],
                              Len(pgPages))
    /\ \A k \in 1..Len(pgDetails) :
         /\ pgDetails[k].sha = k
         /\ pgDetails[k].tree = <<"tree", k>>
         /\ pgDetails[k].message = <<"message", k>>
    /\ pgShas = [k \in 1..Len(pgDetails) |-> k]

C9_Witness ==
  /\ pgPc = "returned"
  /\ Len(pgPages) = 3
  /\ Len(pgPages[2]) = 2
  /\ Len(pgShas) >= 4

(***************************************************************************)
(* The content round trip: getContent, then getLines.                      *)
(***************************************************************************)
LineChars == {"a", EOL}

TextLines == NonEmptySeqsUpTo(LineChars, MaxLineLen)

InitLines ==
  /\ lnPc = "lines"
  /\ lnLines \in SeqsUpTo(TextLines, MaxLines)
  /\ lnContent = <<>>
  /\ lnResult = <<>>
  /\ InitRemoteRefs
  /\ InitTempIdle
  /\ InitPagesIdle
  /\ InitChainIdle
  /\ InitObjects
  /\ InitBuilderIdle
  /\ InitLocalIdle

GetContent ==
  /\ lnPc = "lines"
  /\ lnContent' = getContent(lnLines)
  /\ lnPc' = "content"
  /\ UNCHANGED <<lnLines, lnResult>>
  /\ UNCHANGED <<remoteRefVars, tempVars, pageVars, objectVars, builderVars,
                 localVars, chainVars>>

GetLines ==
  /\ lnPc = "content"
  /\ lnResult' = getLines(lnContent)
  /\ lnPc' = "split"
  /\ UNCHANGED <<lnLines, lnContent>>
  /\ UNCHANGED <<remoteRefVars, tempVars, pageVars, objectVars, builderVars,
                 localVars, chainVars>>

NextLines ==
  \/ GetContent
  \/ GetLines

SpecLines == InitLines /\ [][NextLines]_vars

HasNoLineBreak(line) == \A i \in 1..Len(line) : line[i] # EOL

\* C10 as stated: for any sequence of non-empty lines (the empty sequence
\* included), getLines(getContent(lines)) equals lines.
C10_RoundTripAnyLines == lnPc = "split" => lnResult = lnLines

\* C10 amended: for any non-empty sequence of non-empty lines none of which
\* contains a line break, getLines(getContent(lines)) equals lines.
C10_RoundTrip ==
  (/\ lnPc = "split"
   /\ lnLines # <<>>
   /\ \A i \in 1..Len(lnLines) : HasNoLineBreak(lnLines[i]))
  => lnResult = lnLines

C10_Witness ==
  /\ lnPc = "split"
  /\ Len(lnLines) = 2
  /\ \A i \in 1..Len(lnLines) : HasNoLineBreak(lnLines[i])
  /\ lnResult = lnLines

(***************************************************************************)
(* The remote's objects (src/src/tests/git.ts: createBlob, createTree,     *)
(* createCommit, fetchContent and the commit endpoint).  Blobs and trees   *)
(* are addressed by their content; every created commit gets a new Sha.    *)
(***************************************************************************)
BlobSha(content) == <<"blob", content>>

TreeSha(blob) == <<"tree", blob>>

\* createCommit: parents: parent == null ? [] : [parent]
createCommitDropsParent(message, parent, tree) ==
  [message |-> message, parents |-> <<>>, tree |-> tree]

createCommitAlwaysParent(message, parent, tree) ==
  [message |-> message, parents |-> <<parent>>, tree |-> tree]

createCommit(message, parent, tree) ==
  [message |-> message,
   parents |-> IF parent = NoSha THEN <<>> ELSE <<parent>>,
   tree |-> tree]

CommitOf(cs, sha) == cs[CHOOSE n \in 1..Len(cs) : CommitSha(n) = sha]

\* octokit.gitdata.getCommit({commit_sha}): data.message and data.parents
getCommit(cs, sha) ==
  [message |-> CommitOf(cs, sha).message,
   parents |-> [x \in 1..Len(CommitOf(cs, sha).parents) |->
                  [sha |-> CommitOf(cs, sha).parents[x]]]]

\* octokit.repos.getContent({path: filename, ref}): the encoded file, with
\* the name of its encoding.
RemoteContent(cs, sha) ==
  [content |-> <<"base64", CommitOf(cs, sha).tree[2][2]>>,
   encoding |-> "base64"]

\* Buffer.from(content, encoding).toString("utf8")
BufferFrom(content, encoding) ==
  IF encoding = content[1] THEN content[2] ELSE <<"?">>

fetchContent(cs, sha) ==
  BufferFrom(RemoteContent(cs, sha).content, RemoteContent(cs, sha).encoding)

RECURSIVE fetchReferenceCommitsFromSha(_, _)
fetchReferenceCommitsFromSha(cs, sha) ==
  LET commit == Commit(getLines(fetchContent(cs, sha)), getCommit(cs, sha).message)
      parents == getCommit(cs, sha).parents
  IN IF Len(parents) # 0
     THEN fetchReferenceCommitsFromSha(cs, parents[1].sha) \o <<commit>>
     ELSE <<commit>>

fetchReferenceCommits(rs, cs, ref) ==
  IF fetchReferenceSha(rs, ref) = "NotFound"
  THEN "NotFound"
  ELSE fetchReferenceCommitsFromSha(cs, fetchReferenceSha(rs, ref))

getLatestShaOfInitial(shas) == shas[1]

getLatestSha(shas) == shas[Len(shas)]

(***************************************************************************)
(* createReferences (src/src/tests/git.ts): the initial commit, then one   *)
(* chain of commits and one temporary reference per branch; the branches   *)
(* proceed independently of each other (Promise.all).                      *)
(***************************************************************************)
Branches == 1..Len(state.refNames)

BranchCommits(b) == state.refsCommits[state.refNames[b]]

\* Every branch gets its temporary reference at once, before its commits.
FirstPcSkipsCommits(b) == "ref"

\* The first step of a branch once the initial commit exists.
FirstPc(b) == IF Len(BranchCommits(b)) = 0 THEN "ref" ELSE "blob"

\* refsDetails with the entries given to the names in the reverse order.
RefsDetailsOfReversed(names, br) ==
  [name \in Range(names) |->
     LET index == CHOOSE x \in 1..Len(names) : names[Len(names) + 1 - x] = name
     IN [ref |-> br[index].temporaryRef, shas |-> br[index].shas]]

\* refsDetails.reduce((acc, {shas, temporaryRef}, index) =>
\*   Object.assign({}, acc, {[refNames[index]]: {ref: temporaryRef, shas}}), {})
RefsDetailsOf(names, br) ==
  [name \in Range(names) |->
     LET index == CHOOSE x \in 1..Len(names) :
                    /\ names[x] = name
                    /\ \A y \in 1..Len(names) : names[y] = name => y <= x
     IN [ref |-> br[index].temporaryRef, shas |-> br[index].shas]]

PromiseAllSwallowsFailure(i, b, pc) ==
  IF cr[i].pc # "branches" THEN cr[i].pc
  ELSE IF pc = "done" /\ \A x \in Branches \ {b} : cr[i].br[x].pc = "done"
       THEN "resolved"
  ELSE "branches"

\* How Promise.all settles once branch b has reached pc: it rejects with the
\* first failure and resolves when every branch is done.
PromiseAll(i, b, pc) ==
  IF cr[i].pc # "branches" THEN cr[i].pc
  ELSE IF pc = "failed" THEN "rejected"
  ELSE IF pc = "done" /\ \A x \in Branches \ {b} : cr[i].br[x].pc = "done"
       THEN "resolved"
  ELSE "branches"

\* createReferences is called with the RepoState.
CrCall(i) ==
  /\ cr[i].pc = "idle"
  /\ LocalQuiescent
  /\ cr' = [cr EXCEPT ![i].pc = "initBlob"]
  /\ UNCHANGED <<state, remoteRead>>
  /\ UNCHANGED <<linesVars, remoteRefVars, tempVars, pageVars, objectVars,
                 localVars, chainVars>>

\* createCommitFromLinesAndMessage(initialCommit): await createBlob(...)
CrInitBlob(i) ==
  /\ cr[i].pc = "initBlob"
  /\ blobs' = blobs \cup {BlobSha(getContent(state.initialCommit.lines))}
  /\ cr' = [cr EXCEPT ![i].pc = "initTree",
                      ![i].blob = BlobSha(getContent(state.initialCommit.lines))]
  /\ UNCHANGED <<trees, commits, state, remoteRead>>
  /\ UNCHANGED <<linesVars, remoteRefVars, tempVars, pageVars, localVars,
                 chainVars>>

\* createCommitFromLinesAndMessage(initialCommit): await createTree(...)
CrInitTree(i) ==
  /\ cr[i].pc = "initTree"
  /\ trees' = trees \cup {TreeSha(cr[i].blob)}
  /\ cr' = [cr EXCEPT ![i].pc = "initCommit", ![i].tree = TreeSha(cr[i].blob)]
  /\ UNCHANGED <<blobs, commits, state, remoteRead>>
  /\ UNCHANGED <<linesVars, remoteRefVars, tempVars, pageVars, localVars,
                 chainVars>>

\* createCommitFromLinesAndMessage(initialCommit): createCommit(...) without
\* a parent; then every branch starts (refNames.map), and Promise.all of no
\* branch resolves at once.
CrInitCommit(i) ==
  /\ cr[i].pc = "initCommit"
  /\ commits' = Append(commits,
                       createCommit(state.initialCommit.message, NoSha, cr[i].tree))
  /\ cr' = [cr EXCEPT
              ![i].pc = IF Branches = {} THEN "resolved" ELSE "branches",
              ![i].initialCommitSha = CommitSha(Len(commits) + 1),
              ![i].br = [b \in Branches |->
                           [IdleBranch EXCEPT
                              !.pc = FirstPc(b),
                              !.shas = <<CommitSha(Len(commits) + 1)>>]]]
  /\ UNCHANGED <<blobs, trees, state, remoteRead>>
  /\ UNCHANGED <<linesVars, remoteRefVars, tempVars, pageVars, localVars,
                 chainVars>>

\* A remote call of the initial commit fails: createReferences fails.
CrInitFails(i) ==
  /\ cr[i].pc \in {"initBlob", "initTree", "initCommit"}
  /\ cr' = [cr EXCEPT ![i].pc = "rejected"]
  /\ UNCHANGED <<state, remoteRead>>
  /\ UNCHANGED <<linesVars, remoteRefVars, tempVars, pageVars, objectVars,
                 localVars, chainVars>>

\* The rejection of createReferences cancels what the branches still do.
StartedAndNotRejected(i, b) == b \in DOMAIN cr[i].br /\ cr[i].pc # "rejected"

\* The branch has been started (refNames.map has run).
Started(i, b) == b \in DOMAIN cr[i].br

\* createCommitFromLinesAndMessage(commit k of the branch): await createBlob(...)
BrBlob(i, b) ==
  /\ Started(i, b)
  /\ cr[i].br[b].pc = "blob"
  /\ LET content == getContent(BranchCommits(b)[cr[i].br[b].k].lines)
     IN /\ blobs' = blobs \cup {BlobSha(content)}
        /\ cr' = [cr EXCEPT ![i].br[b].pc = "tree",
                            ![i].br[b].blob = BlobSha(content)]
  /\ UNCHANGED <<trees, commits, state, remoteRead>>
  /\ UNCHANGED <<linesVars, remoteRefVars, tempVars, pageVars, localVars,
                 chainVars>>

\* createCommitFromLinesAndMessage(commit k of the branch): await createTree(...)
BrTree(i, b) ==
  /\ Started(i, b)
  /\ cr[i].br[b].pc = "tree"
  /\ trees' = trees \cup {TreeSha(cr[i].br[b].blob)}
  /\ cr' = [cr EXCEPT ![i].br[b].pc = "commit",
                      ![i].br[b].tree = TreeSha(cr[i].br[b].blob)]
  /\ UNCHANGED <<blobs, commits, state, remoteRead>>
  /\ UNCHANGED <<linesVars, remoteRefVars, tempVars, pageVars, localVars,
                 chainVars>>

\* createCommit(...) with parent getLatestSha(accumulatedShas); the reducer
\* returns [...accumulatedShas, sha] and the next commit, or the temporary
\* reference, follows.
BrCommit(i, b) ==
  /\ Started(i, b)
  /\ cr[i].br[b].pc = "commit"
  /\ commits' = Append(commits,
                       createCommit(BranchCommits(b)[cr[i].br[b].k].message,
                                    getLatestSha(cr[i].br[b].shas),
                                    cr[i].br[b].tree))
  /\ cr' = [cr EXCEPT
              ![i].br[b].shas = Append(@, CommitSha(Len(commits) + 1)),
              ![i].br[b].k = @ + 1,
              ![i].br[b].pc = IF cr[i].br[b].k = Len(BranchCommits(b))
                              THEN "ref" ELSE "blob"]
  /\ UNCHANGED <<blobs, trees, state, remoteRead>>
  /\ UNCHANGED <<linesVars, remoteRefVars, tempVars, pageVars, localVars,
                 chainVars>>

\* The name createTemporaryReference generates for the branch.
NextTemporaryRef(b) == generateUniqueRef(state.refNames[b], UuidOf(uuidCount + 1))

\* createTemporaryReference({ref, sha: getLatestSha(shas)}): generateUniqueRef
\* and await createReference(...); the branch is done.
BrCreateReference(i, b) ==
  /\ Started(i, b)
  /\ cr[i].br[b].pc = "ref"
  /\ CanCreateReference(refs, NextTemporaryRef(b))
  /\ refs' = createReference(refs, NextTemporaryRef(b),
                             getLatestSha(cr[i].br[b].shas))
  /\ uuidCount' = uuidCount + 1
  /\ LET br == [cr[i].br EXCEPT ![b].pc = "done",
                                ![b].temporaryRef = NextTemporaryRef(b)]
     IN cr' = [cr EXCEPT
                 ![i].br = br,
                 ![i].pc = PromiseAll(i, b, "done"),
                 ![i].refsDetails =
                   IF PromiseAll(i, b, "done") = "resolved"
                   THEN RefsDetailsOf(state.refNames, br) ELSE @]
  /\ UNCHANGED <<state, remoteRead>>
  /\ UNCHANGED <<linesVars, tempVars, pageVars, objectVars, localVars,
                 chainVars>>

\* A remote call of the branch fails: the branch stops, and Promise.all, if
\* it has not settled, rejects.
BrFails(i, b) ==
  /\ Started(i, b)
  /\ cr[i].br[b].pc \in {"blob", "tree", "commit", "ref"}
  /\ cr' = [cr EXCEPT ![i].br[b].pc = "failed",
                      ![i].pc = PromiseAll(i, b, "failed")]
  /\ UNCHANGED <<state, remoteRead>>
  /\ UNCHANGED <<linesVars, remoteRefVars, tempVars, pageVars, objectVars,
                 localVars, chainVars>>

DeleteAllSettlesOnFirst(i, b, del) ==
  IF cr[i].delPc # "called" THEN cr[i].delPc
  ELSE IF del = "failed" THEN "rejected"
  ELSE "resolved"

\* How the Promise.all of deleteReferences settles once the deletion of
\* branch b has ended with del.
DeleteAll(i, b, del) ==
  IF cr[i].delPc # "called" THEN cr[i].delPc
  ELSE IF del = "failed" THEN "rejected"
  ELSE IF \A x \in Branches \ {b} : cr[i].br[x].del = "ok" THEN "resolved"
  ELSE "called"

\* The caller invokes deleteReferences(): every deleteReference() is called.
DeleteReferences(i) ==
  /\ cr[i].pc = "resolved"
  /\ cr[i].delPc = "none"
  /\ LocalQuiescent
  /\ cr' = [cr EXCEPT
              ![i].delPc = IF Branches = {} THEN "resolved" ELSE "called",
              ![i].br = [b \in Branches |-> [cr[i].br[b] EXCEPT !.del = "pending"]]]
  /\ UNCHANGED <<state, remoteRead>>
  /\ UNCHANGED <<linesVars, remoteRefVars, tempVars, pageVars, objectVars,
                 localVars, chainVars>>

\* deleteTemporaryReference() of a branch: await deleteReference(temporaryRef)
DeleteTemporaryReference(i, b) ==
  /\ Started(i, b)
  /\ cr[i].br[b].del = "pending"
  /\ CanDeleteReference(refs, cr[i].br[b].temporaryRef)
  /\ refs' = deleteReference(refs, cr[i].br[b].temporaryRef)
  /\ cr' = [cr EXCEPT ![i].br[b].del = "ok",
                      ![i].delPc = DeleteAll(i, b, "ok")]
  /\ UNCHANGED <<uuidCount, state, remoteRead>>
  /\ UNCHANGED <<linesVars, tempVars, pageVars, objectVars, localVars,
                 chainVars>>

\* deleteTemporaryReference() of a branch fails.
DeleteTemporaryReferenceFails(i, b) ==
  /\ Started(i, b)
  /\ cr[i].br[b].del = "pending"
  /\ cr' = [cr EXCEPT ![i].br[b].del = "failed",
                      ![i].delPc = DeleteAll(i, b, "failed")]
  /\ UNCHANGED <<state, remoteRead>>
  /\ UNCHANGED <<linesVars, remoteRefVars, tempVars, pageVars, objectVars,
                 localVars, chainVars>>

\* fetchReferenceCommits({ref: refsDetails[name].ref}), by the caller that
\* createReferences gave refsDetails to.
FetchReferenceCommits(i, name) ==
  /\ cr[i].pc = "resolved"
  /\ LocalQuiescent
  /\ remoteRead' = [inv |-> i, ref |-> name,
                    result |-> fetchReferenceCommits(refs, commits,
                                                     cr[i].refsDetails[name].ref)]
  /\ UNCHANGED <<state, cr>>
  /\ UNCHANGED <<linesVars, remoteRefVars, tempVars, pageVars, objectVars,
                 localVars, chainVars>>

(***************************************************************************)
(* The local git client (src/src/tests/git.ts runs it with execa): the     *)
(* commands createGitRepo and the local readers use.  The n-th commit of   *)
(* the directory has the abbreviated Sha LocalSha(n).                      *)
(***************************************************************************)
LocalSha(n) == "h" \o ToString(n)

LocalCommit(d, sha) == d.commits[CHOOSE n \in 1..Len(d.commits) : LocalSha(n) = sha]

\* The commit HEAD names: its branch's commit (none on an unborn branch), or
\* the commit checked out.
HeadSha(d) ==
  IF d.head.branch = "" THEN d.head.sha
  ELSE IF d.head.branch \in DOMAIN d.branches THEN d.branches[d.head.branch]
  ELSE NoSha

\* git init: an empty repository on the unborn branch master
GitInit ==
  [NoDirectory EXCEPT !.head = [branch |-> "master", sha |-> NoSha]]

\* writeFile(join(directory, filename), content)
WriteFile(d, content) == [d EXCEPT !.file = content]

\* git add file.txt
GitAdd(d) == [d EXCEPT !.index = d.file]

\* git commit refuses to commit when nothing is staged against HEAD.
CanGitCommit(d) ==
  IF HeadSha(d) = NoSha THEN TRUE
  ELSE LocalCommit(d, HeadSha(d)).content # d.index

GitCheckoutStays(d, reference) == d

\* git commit --message message: a commit of the staged file on top of HEAD;
\* the message is stored with its final line break.
GitCommit(d, message) ==
  LET sha == LocalSha(Len(d.commits) + 1)
  IN [d EXCEPT
        !.commits = Append(@, [content |-> d.index,
                               message |-> message \o <<EOL>>,
                               parent |-> HeadSha(d)]),
        !.branches = IF d.head.branch = "" THEN @
                     ELSE [n \in (DOMAIN @) \cup {d.head.branch} |->
                             IF n = d.head.branch THEN sha ELSE @[n]],
        !.head = IF d.head.branch = "" THEN [branch |-> "", sha |-> sha] ELSE @]

\* git checkout --orphan reference: HEAD on an unborn branch
GitCheckoutOrphan(d, reference) ==
  [d EXCEPT !.head = [branch |-> reference, sha |-> NoSha]]

\* git checkout -b reference: a new branch at HEAD, checked out
CanGitCheckoutNew(d, reference) ==
  /\ reference \notin DOMAIN d.branches
  /\ HeadSha(d) # NoSha

GitCheckoutNew(d, reference) ==
  [d EXCEPT
     !.branches = [n \in (DOMAIN @) \cup {reference} |->
                     IF n = reference THEN HeadSha(d) ELSE @[n]],
     !.head = [branch |-> reference, sha |-> NoSha]]

IsLocalSha(d, reference) == \E n \in 1..Len(d.commits) : LocalSha(n) = reference

CanGitCheckout(d, reference) ==
  IF reference \in DOMAIN d.branches THEN TRUE ELSE IsLocalSha(d, reference)

\* git checkout reference that also moves the branch HEAD is on to the commit
GitCheckoutMovesBranch(d, reference) ==
  LET sha == IF reference \in DOMAIN d.branches THEN d.branches[reference]
             ELSE reference
  IN [d EXCEPT
        !.branches = IF reference \in DOMAIN @ THEN @
                     ELSE IF d.head.branch \in DOMAIN @
                          THEN [@ EXCEPT ![d.head.branch] = sha]
                          ELSE @,
        !.head = IF reference \in DOMAIN d.branches
                 THEN [branch |-> reference, sha |-> NoSha]
                 ELSE IF d.head.branch \in DOMAIN d.branches THEN @
                      ELSE [branch |-> "", sha |-> sha],
        !.file = LocalCommit(d, sha).content,
        !.index = LocalCommit(d, sha).content]

\* git checkout reference: a branch, or a commit (detached HEAD); the file of
\* the working tree becomes the commit's.
GitCheckout(d, reference) ==
  LET sha == IF reference \in DOMAIN d.branches THEN d.branches[reference]
             ELSE reference
  IN [d EXCEPT
        !.head = IF reference \in DOMAIN d.branches
                 THEN [branch |-> reference, sha |-> NoSha]
                 ELSE [branch |-> "", sha |-> sha],
        !.file = LocalCommit(d, sha).content,
        !.index = LocalCommit(d, sha).content]

\* The commits from sha back to the root, newest first.
RECURSIVE LocalHistory(_, _)
LocalHistory(d, sha) ==
  IF sha = NoSha THEN <<>>
  ELSE <<sha>> \o LocalHistory(d, LocalCommit(d, sha).parent)

\* git log --pretty=format:%h: one abbreviated Sha per line, newest first
GitLogShas(d) ==
  Join([x \in 1..Len(LocalHistory(d, HeadSha(d))) |->
          <<LocalHistory(d, HeadSha(d))[x]>>], <<EOL>>)

\* git log --format=%B --max-count 1: the message of HEAD and a line break
GitLogMessage(d) == LocalCommit(d, HeadSha(d)).message \o <<EOL>>

\* execa.stdout strips the final line break of the output.
ExecaStdout(output) ==
  IF Len(output) > 0 /\ output[Len(output)] = EOL
  THEN SubSeq(output, 1, Len(output) - 1) ELSE output

Reverse(seq) == [x \in 1..Len(seq) |-> seq[Len(seq) + 1 - x]]

WhiteSpace == {" ", EOL}

\* String.prototype.trim
RECURSIVE Trim(_)
Trim(text) ==
  IF Len(text) = 0 THEN text
  ELSE IF text[1] \in WhiteSpace THEN Trim(Tail(text))
  ELSE IF text[Len(text)] \in WhiteSpace THEN Trim(SubSeq(text, 1, Len(text) - 1))
  ELSE text

(***************************************************************************)
(* createGitRepo (src/src/tests/git.ts): git init, the initial commit, a   *)
(* branch per reference other than master, then the commits of every       *)
(* reference, one command after the other.                                 *)
(***************************************************************************)
\* The commit createGitRepoCommit is making: the initial commit (j = 0), or
\* commit k of reference j.
LbCommit == IF lb.j = 0 THEN state.initialCommit ELSE BranchCommits(lb.j)[lb.k]

\* createGitRepo is called: tempy.directory() and git init
LbInit ==
  /\ lb.pc = "idle"
  /\ RemoteQuiescent
  /\ lc' = GitInit
  /\ lb' = [pc |-> "write", j |-> 0, k |-> 1,
            made |-> [j \in 1..Len(state.refNames) |-> {}]]
  /\ UNCHANGED lr
  /\ UNCHANGED <<linesVars, remoteRefVars, tempVars, pageVars, objectVars,
                 builderVars, chainVars>>

\* createGitRepoCommit: await writeFile(..., getContent(lines))
LbWrite ==
  /\ lb.pc = "write"
  /\ lc' = WriteFile(lc, getContent(LbCommit.lines))
  /\ lb' = [lb EXCEPT !.pc = "add"]
  /\ UNCHANGED lr
  /\ UNCHANGED <<linesVars, remoteRefVars, tempVars, pageVars, objectVars,
                 builderVars, chainVars>>

\* createGitRepoCommit: git add file.txt
LbAdd ==
  /\ lb.pc = "add"
  /\ lc' = GitAdd(lc)
  /\ lb' = [lb EXCEPT !.pc = "commit"]
  /\ UNCHANGED lr
  /\ UNCHANGED <<linesVars, remoteRefVars, tempVars, pageVars, objectVars,
                 builderVars, chainVars>>

\* Where createGitRepo goes once a commit is made: after the initial commit,
\* to the branches; after commit k of reference j, to its next commit, to the
\* next reference, or to the end.
LbAfterCommit ==
  IF lb.j = 0
  THEN [lb EXCEPT !.pc = IF Len(state.refNames) = 0 THEN "done" ELSE "branch",
                  !.j = 1]
  ELSE IF lb.k < Len(BranchCommits(lb.j)) THEN [lb EXCEPT !.pc = "write", !.k = lb.k + 1]
  ELSE IF lb.j < Len(state.refNames)
       THEN [lb EXCEPT !.pc = "checkout", !.j = lb.j + 1, !.k = 1]
  ELSE [lb EXCEPT !.pc = "done", !.k = 1]

\* createGitRepoCommit: git commit --message message
LbGitCommit ==
  /\ lb.pc = "commit"
  /\ CanGitCommit(lc)
  /\ lc' = GitCommit(lc, LbCommit.message)
  /\ lb' = [LbAfterCommit EXCEPT
              !.made = IF lb.j = 0 THEN @
                       ELSE [@ EXCEPT ![lb.j] = @ \cup {LocalSha(Len(lc.commits) + 1)}]]
  /\ UNCHANGED lr
  /\ UNCHANGED <<linesVars, remoteRefVars, tempVars, pageVars, objectVars,
                 builderVars, chainVars>>

\* git commit finds nothing to commit and exits with an error: createGitRepo fails.
LbGitCommitFails ==
  /\ lb.pc = "commit"
  /\ ~CanGitCommit(lc)
  /\ lb' = [lb EXCEPT !.pc = "failed"]
  /\ UNCHANGED <<lc, lr>>
  /\ UNCHANGED <<linesVars, remoteRefVars, tempVars, pageVars, objectVars,
                 builderVars, chainVars>>

\* First loop over the references: git checkout -b reference, except for master.
LbCreateBranch ==
  /\ lb.pc = "branch"
  /\ lc' = IF state.refNames[lb.j] = "master" THEN lc
           ELSE GitCheckoutNew(lc, state.refNames[lb.j])
  /\ lb' = IF lb.j < Len(state.refNames)
           THEN [lb EXCEPT !.j = lb.j + 1]
           ELSE [lb EXCEPT !.pc = "checkout", !.j = 1]
  /\ UNCHANGED lr
  /\ UNCHANGED <<linesVars, remoteRefVars, tempVars, pageVars, objectVars,
                 builderVars, chainVars>>

\* Second loop over the references: git checkout reference, then its commits.
LbCheckout ==
  /\ lb.pc = "checkout"
  /\ CanGitCheckout(lc, state.refNames[lb.j])
  /\ lc' = GitCheckout(lc, state.refNames[lb.j])
  /\ lb' = IF Len(BranchCommits(lb.j)) > 0 THEN [lb EXCEPT !.pc = "write", !.k = 1]
           ELSE IF lb.j < Len(state.refNames) THEN [lb EXCEPT !.j = lb.j + 1]
           ELSE [lb EXCEPT !.pc = "done"]
  /\ UNCHANGED lr
  /\ UNCHANGED <<linesVars, remoteRefVars, tempVars, pageVars, objectVars,
                 builderVars, chainVars>>

(***************************************************************************)
(* getReferenceShasFromGitRepo and getReferenceCommitsFromGitRepo          *)
(* (src/src/tests/git.ts).                                                 *)
(***************************************************************************)
\* log.split("\n").reverse()
getReferenceShasNewestFirst(log) ==
  [x \in 1..Len(Split(log, <<EOL>>)) |-> Split(log, <<EOL>>)[x][1]]

getReferenceShas(log) ==
  Reverse([x \in 1..Len(Split(log, <<EOL>>)) |-> Split(log, <<EOL>>)[x][1]])

\* {lines: getLines(String(content)), message: message.trim()}
ReadCommitUntrimmed(content, message) == Commit(getLines(content), message)

ReadCommit(content, message) == Commit(getLines(content), Trim(message))

\* getReferenceCommitsFromGitRepo({directory, reference}) is called.
LrCall(reference) ==
  /\ lb.pc = "done"
  /\ lr.pc \in {"idle", "returned"}
  /\ RemoteQuiescent
  /\ lr' = [IdleReader EXCEPT !.pc = "checkout", !.reference = reference]
  /\ UNCHANGED <<lc, lb>>
  /\ UNCHANGED <<linesVars, remoteRefVars, tempVars, pageVars, objectVars,
                 builderVars, chainVars>>

\* executeGitCommand: await checkout({directory, reference})
LrCheckout ==
  /\ lr.pc = "checkout"
  /\ CanGitCheckout(lc, lr.reference)
  /\ lc' = GitCheckout(lc, lr.reference)
  /\ lr' = [lr EXCEPT !.pc = "log"]
  /\ UNCHANGED lb
  /\ UNCHANGED <<linesVars, remoteRefVars, tempVars, pageVars, objectVars,
                 builderVars, chainVars>>

\* executeGitCommand: git log --pretty=format:%h, split and reversed
LrLog ==
  /\ lr.pc = "log"
  /\ lr' = [lr EXCEPT !.pc = "checkoutSha",
                      !.shas = getReferenceShas(ExecaStdout(GitLogShas(lc)))]
  /\ UNCHANGED <<lc, lb>>
  /\ UNCHANGED <<linesVars, remoteRefVars, tempVars, pageVars, objectVars,
                 builderVars, chainVars>>

\* The reducer: git checkout sha, then Promise.all starts readFile and git log.
LrCheckoutSha ==
  /\ lr.pc = "checkoutSha"
  /\ CanGitCheckout(lc, lr.shas[lr.idx])
  /\ lc' = GitCheckout(lc, lr.shas[lr.idx])
  /\ lr' = [lr EXCEPT !.pc = "read", !.pending = {"readFile", "log"}]
  /\ UNCHANGED lb
  /\ UNCHANGED <<linesVars, remoteRefVars, tempVars, pageVars, objectVars,
                 builderVars, chainVars>>

\* The reducer, once both promises of Promise.all are resolved: the commit
\* is appended; after the last Sha the commits are returned.
LrAfterRead(reader) ==
  IF reader.pending # {} THEN reader
  ELSE [reader EXCEPT
          !.commits = Append(@, ReadCommit(reader.content, reader.message)),
          !.content = <<>>,
          !.message = <<>>,
          !.idx = @ + 1,
          !.pc = IF reader.idx = Len(reader.shas) THEN "returned" ELSE "checkoutSha"]

\* The reducer: readFile(join(directory, filename)) resolves.
LrReadFile ==
  /\ lr.pc = "read"
  /\ "readFile" \in lr.pending
  /\ lr' = LrAfterRead([lr EXCEPT !.pending = @ \ {"readFile"}, !.content = lc.file])
  /\ UNCHANGED <<lc, lb>>
  /\ UNCHANGED <<linesVars, remoteRefVars, tempVars, pageVars, objectVars,
                 builderVars, chainVars>>

\* The reducer: git log --format=%B --max-count 1 resolves.
LrLogMessage ==
  /\ lr.pc = "read"
  /\ "log" \in lr.pending
  /\ lr' = LrAfterRead([lr EXCEPT !.pending = @ \ {"log"},
                                  !.message = ExecaStdout(GitLogMessage(lc))])
  /\ UNCHANGED <<lc, lb>>
  /\ UNCHANGED <<linesVars, remoteRefVars, tempVars, pageVars, objectVars,
                 builderVars, chainVars>>

(***************************************************************************)
(* The specifications of the builders and the readers, each on every       *)
(* RepoState of the fixtures.                                              *)
(***************************************************************************)
Init ==
  /\ InitLinesIdle
  /\ InitRemoteRefs
  /\ InitTempIdle
  /\ InitPagesIdle
  /\ InitChainIdle
  /\ InitObjects
  /\ state \in RepoStates
  /\ cr = [i \in Invocations |-> IdleInvocation]
  /\ remoteRead = NoRead
  /\ InitLocalIdle

\* createReferences without a failing remote call.
Build(i) ==
  \/ CrCall(i)
  \/ CrInitBlob(i)
  \/ CrInitTree(i)
  \/ CrInitCommit(i)
  \/ \E b \in Branches :
       \/ BrBlob(i, b)
       \/ BrTree(i, b)
       \/ BrCommit(i, b)
       \/ BrCreateReference(i, b)

\* deleteReferences, and the remote calls that fail.
DeleteOrFail(i) ==
  \/ CrInitFails(i)
  \/ DeleteReferences(i)
  \/ \E b \in Branches :
       \/ BrFails(i, b)
       \/ DeleteTemporaryReference(i, b)
       \/ DeleteTemporaryReferenceFails(i, b)

ReadRemote(i) == \E name \in Range(state.refNames) : FetchReferenceCommits(i, name)

\* createGitRepo and getReferenceCommitsFromGitRepo.
Local ==
  \/ LbInit
  \/ LbWrite
  \/ LbAdd
  \/ LbGitCommit
  \/ LbGitCommitFails
  \/ LbCreateBranch
  \/ LbCheckout
  \/ \E name \in Range(state.refNames) : LrCall(name)
  \/ LrCheckout
  \/ LrLog
  \/ LrCheckoutSha
  \/ LrReadFile
  \/ LrLogMessage

\* One createReferences invocation, its deleteReferences and the remote reader.
Next ==
  \/ Build(1)
  \/ DeleteOrFail(1)
  \/ ReadRemote(1)

Spec == Init /\ [][Next]_vars

\* The remote and the local builder and reader on the same RepoState.
NextEquiv ==
  \/ Build(1)
  \/ ReadRemote(1)
  \/ Local

SpecEquiv == Init /\ [][NextEquiv]_vars

(***************************************************************************)
(* fetchReferenceCommitsFromSha (src/src/tests/git.ts) on any history: the *)
(* nested calls, one frame each, over commits that may have several        *)
(* parents.                                                                *)
(***************************************************************************)
ChainMessage(n) == <<ToString(n)>>

ChainLines(n) == << <<"a">>, <<ToString(n)>> >>

\* The parents a commit created after the commits 1..n-1 can have.
ChainParents(n) ==
  {<<>>} \cup {<<CommitSha(p)>> : p \in 1..(n - 1)}
         \cup {<<CommitSha(p), CommitSha(q)>> :
                 <<p, q>> \in {pq \in (1..(n - 1)) \X (1..(n - 1)) : pq[1] # pq[2]}}

\* The histories of len commits: acyclic, every parent older than its child.
ChainGraphs(len) ==
  {[n \in 1..len |->
      [message |-> ChainMessage(n), parents |-> ps[n],
       tree |-> TreeSha(BlobSha(getContent(ChainLines(n))))]] :
     ps \in {f \in [1..len -> ChainParents(len)] :
               \A n \in 1..len : f[n] \in ChainParents(n)}}

InitChain ==
  /\ InitLinesIdle
  /\ InitRemoteRefs
  /\ InitTempIdle
  /\ InitPagesIdle
  /\ InitBuilderIdle
  /\ InitLocalIdle
  /\ commits \in UNION {ChainGraphs(len) : len \in 1..MaxChain}
  /\ blobs = {commits[n].tree[2] : n \in 1..Len(commits)}
  /\ trees = {commits[n].tree : n \in 1..Len(commits)}
  /\ fc = IdleChain

Frame(sha) == [sha |-> sha, pc |-> "content", content |-> <<>>, commit |-> <<>>]

Top == fc.stack[Len(fc.stack)]

Pop == SubSeq(fc.stack, 1, Len(fc.stack) - 1)

\* return [...commits, commit]
UnwindPrepends(commitsRead, commit) == <<commit>> \o commitsRead

Unwind(commitsRead, commit) == Append(commitsRead, commit)

\* sha: parents[0].sha
ParentToFollowLast(parents) == parents[Len(parents)].sha

ParentToFollow(parents) == parents[1].sha

\* The call at the top of the stack returns value: its caller, if any, gets
\* it; the outermost call gives it to the caller of fetchReferenceCommitsFromSha.
ReturnValue(value) ==
  IF Len(fc.stack) = 1
  THEN [fc EXCEPT !.pc = "returned", !.stack = <<>>, !.result = value]
  ELSE [fc EXCEPT !.stack = Pop, !.result = value]

\* fetchReferenceCommitsFromSha({sha}) is called.
FcCall(sha) ==
  /\ fc.pc = "idle"
  /\ fc' = [fc EXCEPT !.pc = "called", !.sha = sha, !.stack = <<Frame(sha)>>,
                      !.depth = 1]
  /\ UNCHANGED <<linesVars, remoteRefVars, tempVars, pageVars, objectVars,
                 builderVars, localVars>>

\* const content = await fetchContent({ref: sha})
FcFetchContent ==
  /\ fc.pc = "called"
  /\ Top.pc = "content"
  /\ fc' = [fc EXCEPT !.stack[Len(fc.stack)].content = fetchContent(commits, Top.sha),
                      !.stack[Len(fc.stack)].pc = "commit",
                      !.contentFetches = @ + 1]
  /\ UNCHANGED <<linesVars, remoteRefVars, tempVars, pageVars, objectVars,
                 builderVars, localVars>>

\* const {data: {message, parents}} = await octokit.gitdata.getCommit(...);
\* const commit = {lines: getLines(content), message}; then the nested call
\* when parents.length !== 0, and return [commit] otherwise.
FcGetCommit ==
  /\ fc.pc = "called"
  /\ Top.pc = "commit"
  /\ Len(fc.stack) < MaxChain + 1
  /\ LET commit == Commit(getLines(Top.content), getCommit(commits, Top.sha).message)
         parents == getCommit(commits, Top.sha).parents
         fetched == [fc EXCEPT !.commitFetches = @ + 1]
     IN fc' = IF Len(parents) # 0
              THEN [fetched EXCEPT
                      !.stack = Append([fc.stack EXCEPT
                                          ![Len(fc.stack)].pc = "await",
                                          ![Len(fc.stack)].commit = commit],
                                       Frame(ParentToFollow(parents))),
                      !.depth = IF Len(fc.stack) + 1 > @ THEN Len(fc.stack) + 1 ELSE @]
              ELSE [ReturnValue(<<commit>>) EXCEPT !.commitFetches = @ + 1]
  /\ UNCHANGED <<linesVars, remoteRefVars, tempVars, pageVars, objectVars,
                 builderVars, localVars>>

\* The nested call has returned commits: return [...commits, commit]
FcResume ==
  /\ fc.pc = "called"
  /\ Top.pc = "await"
  /\ fc' = ReturnValue(Unwind(fc.result, Top.commit))
  /\ UNCHANGED <<linesVars, remoteRefVars, tempVars, pageVars, objectVars,
                 builderVars, localVars>>

\* A request of the call at the top of the stack fails: every call fails.
FcFails ==
  /\ fc.pc = "called"
  /\ Top.pc \in {"content", "commit"}
  /\ fc' = [fc EXCEPT !.pc = "rejected", !.stack = <<>>]
  /\ UNCHANGED <<linesVars, remoteRefVars, tempVars, pageVars, objectVars,
                 builderVars, localVars>>

NextChain ==
  \/ \E n \in 1..Len(commits) : FcCall(CommitSha(n))
  \/ FcFetchContent
  \/ FcGetCommit
  \/ FcResume
  \/ FcFails

SpecChain == InitChain /\ [][NextChain]_vars

\* Every request is answered and every continuation runs.
SpecChainFair == SpecChain /\ WF_vars(NextChain)

\* Two and more createReferences invocations on the same remote and the
\* same RepoState, with their deleteReferences.
ConcRepoStates ==
  {s \in RepoStates :
     /\ s.initialCommit = Commit(<< <<"a">> >>, <<"m">>)
     /\ \A n \in Range(s.refNames) :
          s.refsCommits[n] \in SeqsUpTo({Commit(<< <<"a">>, <<"b">> >>, <<"n">>)}, 1)}

InitConc ==
  /\ InitLinesIdle
  /\ InitRemoteRefs
  /\ InitTempIdle
  /\ InitPagesIdle
  /\ InitChainIdle
  /\ InitObjects
  /\ state \in ConcRepoStates
  /\ cr = [i \in Invocations |-> IdleInvocation]
  /\ remoteRead = NoRead
  /\ InitLocalIdle

NextConc ==
  \E i \in Invocations :
    \/ Build(i)
    \/ DeleteReferences(i)
    \/ \E b \in Branches : DeleteTemporaryReference(i, b)

SpecConc == InitConc /\ [][NextConc]_vars

(***************************************************************************)
(* Properties of the builders and the readers.                             *)
(***************************************************************************)
IsTrimmed(text) == Trim(text) = text

\* The commits a reader of the reference is to see: the initial commit, then
\* the commits of the reference.
HistoryOf(name) == <<state.initialCommit>> \o state.refsCommits[name]

BothRead ==
  /\ lr.pc = "returned"
  /\ remoteRead.inv = 1
  /\ remoteRead.ref = lr.reference

\* C4 as stated: for any RepoState and every branch of it, createReferences
\* followed by fetchReferenceCommits yields the ReferenceState that
\* createGitRepo followed by getReferenceCommitsFromGitRepo yields.
C4_EquivalenceAnyState == BothRead => remoteRead.result = lr.commits

\* C4 amended: the two ReferenceStates are equal, commit for commit, for every
\* branch whose history (the initial commit included) has only messages
\* without leading or trailing white space.
C4_Equivalence ==
  (/\ BothRead
   /\ \A x \in 1..Len(HistoryOf(lr.reference)) :
        IsTrimmed(HistoryOf(lr.reference)[x].message))
  => remoteRead.result = lr.commits

C4_Witness ==
  /\ BothRead
  /\ Len(state.refNames) = 2
  /\ Len(lr.commits) = 3
  /\ lr.commits[2] # lr.commits[3]
  /\ remoteRead.result = lr.commits

\* C5: for every branch, refsDetails[branch].shas has length
\* 1 + |refsCommits[branch]|, starts with the Sha of the realized initial
\* commit, and every later commit was created with the entry before it as
\* its only parent.
C5_ShaChain ==
  cr[1].pc = "resolved" =>
    \A name \in Range(state.refNames) :
      LET shas == cr[1].refsDetails[name].shas
      IN /\ Len(shas) = 1 + Len(state.refsCommits[name])
         /\ shas[1] = cr[1].initialCommitSha
         /\ CommitOf(commits, shas[1]).parents = <<>>
         /\ CommitOf(commits, shas[1]).message = state.initialCommit.message
         /\ \A x \in 2..Len(shas) :
              CommitOf(commits, shas[x]).parents = <<shas[x - 1]>>

C5_Witness ==
  /\ cr[1].pc = "resolved"
  /\ \E name \in Range(state.refNames) : Len(cr[1].refsDetails[name].shas) = 3

\* C6: once deleteReferences has resolved, fetchReferenceSha fails as not
\* found on every temporary reference createReferences created.
C6_ReferencesDeleted ==
  cr[1].delPc = "resolved" =>
    \A name \in Range(state.refNames) :
      fetchReferenceSha(refs, cr[1].refsDetails[name].ref) = "NotFound"

C6_Witness ==
  /\ cr[1].delPc = "resolved"
  /\ Len(state.refNames) = 2
  /\ refs = NoRefs

\* The temporary references the invocations have created.
CreatedRefs ==
  {<<i, b>> \in Invocations \X Branches :
     b \in DOMAIN cr[i].br /\ cr[i].br[b].pc = "done"}

\* C7: concurrent createReferences invocations with the same base names
\* generate distinct names: no createReference meets an existing name, and a
\* reference stays until its own invocation's deleteReferences deletes it.
C7_NoCollision ==
  /\ \A p \in CreatedRefs, q \in CreatedRefs :
       p # q => cr[p[1]].br[p[2]].temporaryRef # cr[q[1]].br[q[2]].temporaryRef
  /\ \A i \in Invocations : \A b \in DOMAIN cr[i].br :
       cr[i].br[b].pc = "ref" => CanCreateReference(refs, NextTemporaryRef(b))
  /\ \A p \in CreatedRefs :
       cr[p[1]].br[p[2]].del # "ok" =>
         fetchReferenceSha(refs, cr[p[1]].br[p[2]].temporaryRef)
           = getLatestSha(cr[p[1]].br[p[2]].shas)

C7_Witness ==
  /\ Len(state.refNames) = 2
  /\ cr[1].delPc = "resolved"
  /\ cr[2].pc = "resolved"
  /\ cr[2].delPc = "none"
  /\ Cardinality(DOMAIN refs) = 2

\* The Shas of the commits from sha back to the root, along parents[0].
RECURSIVE RemoteHistory(_, _)
RemoteHistory(cs, sha) ==
  IF Len(getCommit(cs, sha).parents) = 0 THEN {sha}
  ELSE {sha} \cup RemoteHistory(cs, getCommit(cs, sha).parents[1].sha)

\* C8: the history of a branch, read remotely or locally, holds no commit
\* that was built from another branch's commits; two branches share the
\* initial commit only.
C8_BranchIsolation ==
  /\ cr[1].pc = "resolved" =>
       \A a \in Branches, b \in Branches :
         a # b =>
           LET history == RemoteHistory(commits,
                                        fetchReferenceSha(refs, cr[1].br[a].temporaryRef))
           IN /\ history \cap Range(cr[1].br[b].shas) = {cr[1].initialCommitSha}
              /\ history = Range(cr[1].br[a].shas)
  /\ lb.pc = "done" =>
       \A a \in Branches, b \in Branches :
         a # b =>
           LET history == Range(LocalHistory(lc, lc.branches[state.refNames[a]]))
           IN /\ history \cap lb.made[b] = {}
              /\ history = {LocalSha(1)} \cup lb.made[a]

C8_Witness ==
  /\ cr[1].pc = "resolved"
  /\ lb.pc = "done"
  /\ Len(state.refNames) = 2
  /\ \A b \in Branches : Len(BranchCommits(b)) = 2

\* C11: a failed remote call of createReferences makes createReferences
\* fail: the caller gets no refsDetails and no deleteReferences, no
\* deleteReference is issued, and every temporary reference that was created
\* stays on the remote.
C11_FailureAbortsWithoutCleanup ==
  /\ \A b \in DOMAIN cr[1].br : cr[1].br[b].pc = "failed" => cr[1].pc = "rejected"
  /\ cr[1].pc = "rejected" =>
       /\ cr[1].refsDetails = <<>>
       /\ cr[1].delPc = "none"
       /\ \A b \in DOMAIN cr[1].br :
            /\ cr[1].br[b].del = "none"
            /\ cr[1].br[b].pc = "done" =>
                 fetchReferenceSha(refs, cr[1].br[b].temporaryRef)
                   = getLatestSha(cr[1].br[b].shas)

C11_Witness ==
  /\ cr[1].pc = "rejected"
  /\ \E b \in DOMAIN cr[1].br : cr[1].br[b].pc = "failed"
  /\ \E b \in DOMAIN cr[1].br :
       /\ cr[1].br[b].pc = "done"
       /\ RefExists(refs, getFullyQualifiedRef(cr[1].br[b].temporaryRef))

\* The history of the reference as the local reader reports it: every
\* message trimmed.
TrimmedHistoryOf(name) ==
  [x \in 1..Len(HistoryOf(name)) |->
     Commit(HistoryOf(name)[x].lines, Trim(HistoryOf(name)[x].message))]

\* C12 as stated: the ReferenceState a reader returns for a branch equals
\* refsCommits[branch] and does not contain the initial commit.
C12_ReadersOmitInitialCommit ==
  /\ remoteRead.inv = 1 => remoteRead.result = state.refsCommits[remoteRead.ref]
  /\ lr.pc = "returned" => lr.commits = state.refsCommits[lr.reference]

\* C12 amended: the ReferenceState a reader returns for a branch is the
\* initial commit followed by refsCommits[branch]: index 0 is the initial
\* commit; the local reader reports every message trimmed.
C12_ReadersIncludeInitialCommit ==
  /\ remoteRead.inv = 1 => remoteRead.result = HistoryOf(remoteRead.ref)
  /\ lr.pc = "returned" => lr.commits = TrimmedHistoryOf(lr.reference)

C12_Witness ==
  /\ BothRead
  /\ Len(state.refsCommits[lr.reference]) = 2
  /\ remoteRead.result[1] = state.initialCommit
  /\ Len(lr.commits) = 3
  /\ lr.commits = TrimmedHistoryOf(lr.reference)

\* The commit of the history that has the message.
ChainIndex(message) == CHOOSE n \in 1..Len(commits) : commits[n].message = message

\* C13: fetchReferenceCommitsFromSha(sha) returns the commits of the
\* first-parent chain that ends at sha, oldest first: the first has no
\* parent, the last is the commit sha, and the first parent of every other
\* element is the element before it, whatever further parents a commit has.
C13_FirstParentChain ==
  fc.pc = "returned" =>
    LET r == fc.result
        shaAt(x) == CommitSha(ChainIndex(r[x].message))
    IN /\ Len(r) >= 1
       /\ \A x \in 1..Len(r) :
            /\ \E n \in 1..Len(commits) : commits[n].message = r[x].message
            /\ r[x].lines = ChainLines(ChainIndex(r[x].message))
       /\ CommitOf(commits, shaAt(1)).parents = <<>>
       /\ shaAt(Len(r)) = fc.sha
       /\ \A x \in 2..Len(r) :
            /\ CommitOf(commits, shaAt(x)).parents # <<>>
            /\ CommitOf(commits, shaAt(x)).parents[1] = shaAt(x - 1)

C13_Witness ==
  /\ fc.pc = "returned"
  /\ Len(fc.result) = 3
  /\ Len(CommitOf(commits, fc.sha).parents) = 2
  /\ fc.result[2].message
       = CommitOf(commits, CommitOf(commits, fc.sha).parents[1]).message

\* C14: on every finite acyclic history fetchReferenceCommitsFromSha ends,
\* and the number of nested calls is the number of commits of the
\* first-parent chain from sha to the root, with one fetch of the content and
\* one fetch of the commit for each.
C14_TerminatesInChainLength ==
  /\ [](fc.pc = "called" =>
          Len(fc.stack) <= Cardinality(RemoteHistory(commits, fc.sha)))
  /\ [](fc.pc = "returned" =>
          /\ fc.depth = Cardinality(RemoteHistory(commits, fc.sha))
          /\ fc.contentFetches = fc.depth
          /\ fc.commitFetches = fc.depth)
  /\ (fc.pc = "called" ~> fc.pc \in {"returned", "rejected"})

C14_Witness ==
  /\ fc.pc = "returned"
  /\ fc.depth = 3
  /\ Len(commits) = 4
  /\ fc.contentFetches = 3

\* The position of a commit in the order in which the remote created them.
CommitIndex(sha) == CHOOSE n \in 1..Len(commits) : CommitSha(n) = sha

\* C15: the initial commit exists before any call of a branch is made; in a
\* branch the calls of commit k are made when the commits 1..k-1 of the
\* branch have returned their Shas, each created after and on top of the one
\* before; the branches advance independently.
C15_SequentialWithinBranch ==
  /\ cr[1].pc \in {"idle", "initBlob", "initTree", "initCommit"} =>
       cr[1].br = <<>> /\ commits = <<>>
  /\ \A b \in DOMAIN cr[1].br :
       LET branch == cr[1].br[b]
       IN /\ cr[1].initialCommitSha = CommitSha(1)
          /\ Len(commits) >= 1
          /\ branch.shas[1] = cr[1].initialCommitSha
          /\ branch.pc \in {"blob", "tree", "commit"} =>
               /\ Len(branch.shas) = branch.k
               /\ branch.k <= Len(BranchCommits(b))
          /\ branch.pc \in {"tree", "commit"} => branch.blob \in blobs
          /\ branch.pc = "commit" => branch.tree \in trees
          /\ \A x \in 2..Len(branch.shas) :
               /\ CommitIndex(branch.shas[x - 1]) < CommitIndex(branch.shas[x])
               /\ CommitOf(commits, branch.shas[x]).parents = <<branch.shas[x - 1]>>
               /\ CommitOf(commits, branch.shas[x]).message
                    = BranchCommits(b)[x - 1].message

\* The calls of two branches interleave: a commit of one branch is created
\* between two commits of the other, which is in the middle of a commit.
C15_Witness ==
  /\ Len(state.refNames) = 2
  /\ DOMAIN cr[1].br = {1, 2}
  /\ Len(cr[1].br[1].shas) = 3
  /\ Len(cr[1].br[2].shas) = 2
  /\ cr[1].br[2].pc = "tree"
  /\ CommitIndex(cr[1].br[1].shas[2]) < CommitIndex(cr[1].br[2].shas[2])
  /\ CommitIndex(cr[1].br[2].shas[2]) < CommitIndex(cr[1].br[1].shas[3])

\* The temporary references on the remote that were made from the name.
RefsOfBranch(name) ==
  {n \in DOMAIN refs :
     \E u \in 1..uuidCount : n = getFullyQualifiedRef(generateUniqueRef(name, UuidOf(u)))}

\* C16: createReferences creates one temporary reference per branch, after
\* every commit of the branch has been created, pointing at the last Sha of
\* the branch's chain, which for a branch without commits is the Sha of the
\* initial commit.
C16_OneReferencePerBranch ==
  /\ \A b \in DOMAIN cr[1].br :
       /\ cr[1].br[b].pc \in {"blob", "tree", "commit", "ref"} =>
            RefsOfBranch(state.refNames[b]) = {}
       /\ (cr[1].br[b].pc = "done" /\ cr[1].delPc = "none") =>
            /\ RefsOfBranch(state.refNames[b])
                 = {getFullyQualifiedRef(cr[1].br[b].temporaryRef)}
            /\ Len(cr[1].br[b].shas) = 1 + Len(BranchCommits(b))
            /\ \A x \in 1..Len(cr[1].br[b].shas) :
                 CommitIndex(cr[1].br[b].shas[x]) <= Len(commits)
            /\ fetchReferenceSha(refs, cr[1].br[b].temporaryRef)
                 = cr[1].br[b].shas[Len(cr[1].br[b].shas)]
            /\ BranchCommits(b) = <<>> =>
                 fetchReferenceSha(refs, cr[1].br[b].temporaryRef)
                   = cr[1].initialCommitSha
  /\ (cr[1].pc = "resolved" /\ cr[1].delPc = "none") =>
       Cardinality(DOMAIN refs) = Len(state.refNames)

C16_Witness ==
  /\ cr[1].pc = "resolved"
  /\ cr[1].delPc = "none"
  /\ Len(state.refNames) = 2
  /\ BranchCommits(1) = <<>>
  /\ Len(BranchCommits(2)) = 2
  /\ Cardinality(DOMAIN refs) = 2
  /\ fetchReferenceSha(refs, cr[1].br[1].temporaryRef) = cr[1].initialCommitSha

\* The next call of the branch can be made.
CanAdvance(i, b) ==
  ENABLED (BrBlob(i, b) \/ BrTree(i, b) \/ BrCommit(i, b) \/ BrCreateReference(i, b))

\* C17: after createReferences has failed, a branch that has not failed
\* itself is not cancelled: its next call is still made, up to the creation
\* of its temporary reference.
C17_SiblingsNotCancelled ==
  cr[1].pc = "rejected" =>
    \A b \in DOMAIN cr[1].br :
      cr[1].br[b].pc \in {"blob", "tree", "commit", "ref"} => CanAdvance(1, b)

\* createReferences has failed with one branch, the other branch has created
\* a commit and is about to create its reference.
C17_Witness ==
  /\ cr[1].pc = "rejected"
  /\ \E a \in DOMAIN cr[1].br, b \in DOMAIN cr[1].br :
       /\ cr[1].br[a].pc = "failed"
       /\ Len(cr[1].br[a].shas) = 1
       /\ cr[1].br[b].pc = "ref"
       /\ Len(cr[1].br[b].shas) = 3
       /\ CanAdvance(1, b)

\* The commits of a local branch, oldest first.
LocalBranchShas(name) == Reverse(LocalHistory(lc, lc.branches[name]))

\* How many of its own commits reference j has while createGitRepo runs.
LocalCommitsMade(j) ==
  IF lb.pc = "done" \/ j < lb.j THEN Len(BranchCommits(j))
  ELSE IF j = lb.j /\ lb.pc \in {"write", "add", "commit"} THEN lb.k - 1
  ELSE 0

\* C18: createGitRepo creates every branch other than master while the
\* initial commit is the only commit, so every branch starts at the initial
\* commit; then the references get their commits one reference at a time, in
\* the order of the RepoState, each on its own checked out branch.
C18_BranchesBeforeCommits ==
  /\ lb.pc = "branch" =>
       /\ Len(lc.commits) = 1
       /\ \A n \in DOMAIN lc.branches : lc.branches[n] = LocalSha(1)
  /\ Len(lc.commits) > 1 =>
       DOMAIN lc.branches = Range(state.refNames) \cup {"master"}
  /\ (lb.pc \in {"checkout", "write", "add", "commit", "done"} /\ lb.j >= 1) =>
       Range(state.refNames) \subseteq DOMAIN lc.branches
  /\ (lb.pc \in {"write", "add", "commit"} /\ lb.j >= 1) =>
       lc.head.branch = state.refNames[lb.j]
  /\ (lb.pc \in {"checkout", "write", "add", "commit", "done"} /\ lb.j >= 1) =>
       \A j \in Branches :
         LET h == LocalBranchShas(state.refNames[j])
         IN /\ Len(h) = 1 + LocalCommitsMade(j)
            /\ h[1] = LocalSha(1)
            /\ \A x \in 2..Len(h) :
                 /\ LocalCommit(lc, h[x]).content
                      = getContent(BranchCommits(j)[x - 1].lines)
                 /\ LocalCommit(lc, h[x]).message
                      = BranchCommits(j)[x - 1].message \o <<EOL>>

C18_Witness ==
  /\ lb.pc = "add"
  /\ lb.j = 2
  /\ lb.k = 2
  /\ state.refNames = <<"feature", "master">>
  /\ Len(BranchCommits(1)) = 2
  /\ Len(lc.commits) = 4
  /\ lc.branches["master"] = LocalSha(4)
  /\ lc.branches["feature"] = LocalSha(3)

\* The operations on the local working directory that have been started and
\* have not completed.
LocalInFlight ==
  (IF lb.pc = "write" THEN {"createGitRepo writeFile"}
   ELSE IF lb.pc = "add" THEN {"createGitRepo git add"}
   ELSE IF lb.pc = "commit" THEN {"createGitRepo git commit"}
   ELSE IF lb.pc = "branch" /\ state.refNames[lb.j] # "master"
        THEN {"createGitRepo git checkout -b"}
   ELSE IF lb.pc = "checkout" THEN {"createGitRepo git checkout"}
   ELSE {})
  \cup
  (IF lr.pc = "checkout" THEN {"git checkout"}
   ELSE IF lr.pc = "log" THEN {"git log"}
   ELSE IF lr.pc = "checkoutSha" THEN {"git checkout sha"}
   ELSE lr.pending)

\* C19: during createGitRepo, getReferenceShasFromGitRepo and
\* getReferenceCommitsFromGitRepo at most one operation on the local working
\* directory is in flight at any time.
C19_OneLocalOperationAtATime == Cardinality(LocalInFlight) <= 1

\* C20: when the action returns normally and the deletion of the temporary
\* reference fails, withTemporaryReference fails with the deletion's failure
\* and does not return the action's result.
C20_DeleteFailureSurfaces ==
  \A c \in Callers :
    (WtSettled(c) /\ wt[c].action = "value" /\ wt[c].deleteOk = "no")
    => /\ wt[c].pc = "threw"
       /\ wt[c].outcome = "DeleteError"

C20_Witness ==
  \E c \in Callers :
    /\ wt[c].pc = "threw"
    /\ wt[c].action = "value"
    /\ wt[c].deleteCalls = 1
    /\ wt[c].deleteOk = "no"
    /\ RefExists(refs, getFullyQualifiedRef(wt[c].temporaryRef))

\* The createReferences invocations that have created their initial commit.
InitialCommitsMade == {i \in Invocations : cr[i].initialCommitSha # NoSha}

\* C21: every commit the builder creates has at most one parent: the initial
\* commit of each createReferences invocation, and no other commit, has no
\* parent, and every other commit has exactly one.
C21_AtMostOneParent ==
  /\ \A n \in 1..Len(commits) : Len(commits[n].parents) <= 1
  /\ {CommitSha(n) : n \in {m \in 1..Len(commits) : commits[m].parents = <<>>}}
       = {cr[i].initialCommitSha : i \in InitialCommitsMade}
  /\ \A i \in InitialCommitsMade, j \in InitialCommitsMade :
       cr[i].initialCommitSha = cr[j].initialCommitSha => i = j
  /\ \A n \in 1..Len(commits) :
       Len(commits[n].parents) = 1 =>
         \E m \in 1..(n - 1) : commits[n].parents[1] = CommitSha(m)

C21_Witness ==
  /\ \A i \in Invocations : cr[i].pc = "resolved"
  /\ Len(state.refNames) = 2
  /\ Len(commits) = NumInvocations + 2 * NumInvocations
  /\ Cardinality({n \in 1..Len(commits) : commits[n].parents = <<>>}) = NumInvocations

\* C22: refsDetails has one entry per branch name of refsCommits, and the
\* entry of a name holds the temporary reference generated from that name and
\* the Shas of the commits built from that name's ReferenceState, in whatever
\* order the branches complete.
C22_RefsDetailsByName ==
  cr[1].pc = "resolved" =>
    /\ DOMAIN cr[1].refsDetails = Range(state.refNames)
    /\ \A b \in Branches :
         LET name == state.refNames[b]
             details == cr[1].refsDetails[name]
         IN /\ details.ref = cr[1].br[b].temporaryRef
            /\ details.shas = cr[1].br[b].shas
            /\ \E u \in 1..uuidCount : details.ref = generateUniqueRef(name, UuidOf(u))
            /\ Len(details.shas) = Len(HistoryOf(name))
            /\ \A x \in 1..Len(details.shas) :
                 /\ CommitOf(commits, details.shas[x]).message
                      = HistoryOf(name)[x].message
                 /\ CommitOf(commits, details.shas[x]).tree
                      = TreeSha(BlobSha(getContent(HistoryOf(name)[x].lines)))

\* The second branch completed before the first.
C22_Witness ==
  /\ cr[1].pc = "resolved"
  /\ cr[1].delPc = "none"
  /\ Len(state.refNames) = 2
  /\ BranchCommits(1) # BranchCommits(2)
  /\ cr[1].refsDetails[state.refNames[2]].ref
       = generateUniqueRef(state.refNames[2], UuidOf(1))
  /\ cr[1].refsDetails[state.refNames[1]].ref
       = generateUniqueRef(state.refNames[1], UuidOf(2))

\* C23: when the creation of the temporary reference fails, the action is
\* never invoked, no deleteReference call is issued and the caller receives
\* the creation's failure; the action is invoked only after the reference
\* was created, and with the generated name.
C23_CreateFailureSkipsActionAndDelete ==
  \A c \in Callers :
    /\ (wt[c].pc \notin {"idle", "creating"} /\ ~wt[c].created) =>
         /\ wt[c].pc = "threw"
         /\ wt[c].outcome = "CreateError"
         /\ wt[c].action = "pending"
         /\ wt[c].deleteCalls = 0
         /\ fetchReferenceSha(refs, wt[c].temporaryRef) = "NotFound"
    /\ wt[c].action # "pending" =>
         /\ wt[c].created
         /\ wt[c].actionArg = wt[c].temporaryRef
         /\ \E u \in 1..uuidCount :
              wt[c].actionArg = wt[c].ref \o "-" \o UuidOf(u)

C23_Witness ==
  \E c \in Callers, d \in Callers :
    /\ wt[c].pc = "threw"
    /\ wt[c].outcome = "CreateError"
    /\ wt[c].deleteCalls = 0
    /\ wt[d].action = "value"
    /\ wt[d].actionArg = wt[d].temporaryRef

\* octokit.gitdata.updateReference: the remote refuses a name that does not
\* exist, and, without force, a Sha that is not a descendant of the current one.
CanUpdateReference(rs, cs, ref, sha, force) ==
  IF RefExists(rs, EndpointRef(getHeadRef(ref)))
  THEN IF force THEN TRUE
       ELSE rs[EndpointRef(getHeadRef(ref))] \in RemoteHistory(cs, sha)
  ELSE FALSE

updateReference(rs, ref, sha) ==
  [n \in DOMAIN rs |-> IF n = EndpointRef(getHeadRef(ref)) THEN sha ELSE rs[n]]

(***************************************************************************)
(* The four reference primitives of src/src/git.ts, called with short      *)
(* names on a remote that holds a chain of commits.                        *)
(***************************************************************************)
ShortNames ==
  {"master", "feature", generateUniqueRef("master", UuidOf(1)),
   generateUniqueRef("feature", UuidOf(2))}

InitRefs ==
  /\ InitLinesIdle
  /\ InitTempIdle
  /\ InitPagesIdle
  /\ InitChainIdle
  /\ InitBuilderIdle
  /\ InitLocalIdle
  /\ refs = NoRefs
  /\ uuidCount = 2
  /\ blobs = {BlobSha(<<"a">>)}
  /\ trees = {TreeSha(BlobSha(<<"a">>))}
  /\ commits = [n \in 1..MaxRefCommits |->
                  createCommit(<<"m">>,
                               IF n = 1 THEN NoSha ELSE CommitSha(n - 1),
                               TreeSha(BlobSha(<<"a">>)))]

\* createReference({ref, sha})
RfCreateReference(ref, sha) ==
  /\ CanCreateReference(refs, ref)
  /\ refs' = createReference(refs, ref, sha)
  /\ UNCHANGED uuidCount
  /\ UNCHANGED <<linesVars, tempVars, pageVars, objectVars, builderVars,
                 localVars, chainVars>>

\* updateReference({force, ref, sha})
RfUpdateReference(ref, sha, force) ==
  /\ CanUpdateReference(refs, commits, ref, sha, force)
  /\ refs' = updateReference(refs, ref, sha)
  /\ UNCHANGED uuidCount
  /\ UNCHANGED <<linesVars, tempVars, pageVars, objectVars, builderVars,
                 localVars, chainVars>>

\* deleteReference({ref})
RfDeleteReference(ref) ==
  /\ CanDeleteReference(refs, ref)
  /\ refs' = deleteReference(refs, ref)
  /\ UNCHANGED uuidCount
  /\ UNCHANGED <<linesVars, tempVars, pageVars, objectVars, builderVars,
                 localVars, chainVars>>

NextRefs ==
  \E ref \in ShortNames :
    \/ \E n \in 1..Len(commits) : RfCreateReference(ref, CommitSha(n))
    \/ \E n \in 1..Len(commits), force \in BOOLEAN :
         RfUpdateReference(ref, CommitSha(n), force)
    \/ RfDeleteReference(ref)

SpecRefs == InitRefs /\ [][NextRefs]_vars

\* C24: createReference, fetchReferenceSha, updateReference and
\* deleteReference with the same short name address one pointer of the
\* remote, refs/heads/<name>: what one creates the others find, change and
\* remove, and nothing else.
C24_SamePointer ==
  /\ DOMAIN refs \subseteq {"refs/heads/" \o name : name \in ShortNames}
  /\ \A name \in ShortNames :
       LET pointer == "refs/heads/" \o name
       IN IF RefExists(refs, pointer)
          THEN /\ fetchReferenceSha(refs, name) = refs[pointer]
               /\ ~CanCreateReference(refs, name)
               /\ CanDeleteReference(refs, name)
               /\ DOMAIN deleteReference(refs, name) = (DOMAIN refs) \ {pointer}
               /\ \A n \in 1..Len(commits) :
                    /\ CanUpdateReference(refs, commits, name, CommitSha(n), TRUE)
                    /\ updateReference(refs, name, CommitSha(n))[pointer] = CommitSha(n)
                    /\ DOMAIN updateReference(refs, name, CommitSha(n)) = DOMAIN refs
          ELSE /\ fetchReferenceSha(refs, name) = "NotFound"
               /\ CanCreateReference(refs, name)
               /\ ~CanDeleteReference(refs, name)
               /\ \A n \in 1..Len(commits) :
                    /\ ~CanUpdateReference(refs, commits, name, CommitSha(n), TRUE)
                    /\ DOMAIN createReference(refs, name, CommitSha(n))
                         = (DOMAIN refs) \cup {pointer}
                    /\ createReference(refs, name, CommitSha(n))[pointer] = CommitSha(n)
                    /\ deleteReference(createReference(refs, name, CommitSha(n)), name)
                         = refs

C24_Witness ==
  /\ fetchReferenceSha(refs, generateUniqueRef("master", UuidOf(1))) = CommitSha(2)
  /\ fetchReferenceSha(refs, "master") = CommitSha(1)
  /\ fetchReferenceSha(refs, "feature") = "NotFound"
  /\ Cardinality(DOMAIN refs) = 2


(***************************************************************************)
(* The readers together: fetchReferenceCommits, fetchReferenceCommitsFromSha*)
(* and fetchCommits on the remote createReferences builds, and             *)
(* getReferenceCommitsFromGitRepo on the directory createGitRepo builds.   *)
(***************************************************************************)
ReaderRepoStates ==
  {s \in RepoStates :
     /\ s.refNames = <<"master">>
     /\ s.initialCommit = Commit(<< <<"a">> >>, <<"m">>)}

ReaderPages == {PagesOfSizes(<<MaxPerPage, 1>>)}

InitReaders ==
  /\ InitLinesIdle
  /\ InitRemoteRefs
  /\ InitTempIdle
  /\ InitChainIdle
  /\ InitObjects
  /\ state \in ReaderRepoStates
  /\ cr = [i \in Invocations |-> IdleInvocation]
  /\ remoteRead = NoRead
  /\ InitLocalIdle
  /\ pgPages \in ReaderPages
  /\ pgPc = "idle"
  /\ pgResponse = 0
  /\ pgDetails = <<>>
  /\ pgShas = <<>>

NextReaders ==
  \/ Build(1)
  \/ ReadRemote(1)
  \/ Local
  \/ NextChain
  \/ NextPages

SpecReaders == InitReaders /\ [][NextReaders]_vars

\* C25: the readers change no history.  A step of fetchReferenceCommits, of
\* fetchReferenceCommitsFromSha or of fetchCommitsDetails and fetchCommits
\* leaves every reference and every object of the remote as it was, and a
\* step of getReferenceShasFromGitRepo and getReferenceCommitsFromGitRepo
\* leaves every local branch pointer and every local commit as it was: of
\* the directory only what is checked out changes.
C25_ReadersChangeNoHistory ==
  [][/\ (remoteRead' # remoteRead \/ fc' # fc \/ pageVars' # pageVars)
          => /\ UNCHANGED <<refs, blobs, trees, commits>>
             /\ UNCHANGED lc
     /\ lr' # lr
          => /\ lc'.branches = lc.branches
             /\ lc'.commits = lc.commits
             /\ UNCHANGED <<refs, blobs, trees, commits>>]_vars

C25_Witness ==
  /\ lr.pc = "returned"
  /\ Len(lr.commits) = MaxCommits + 1
  /\ lc.head.branch = ""
  /\ lc.head.sha = lc.branches["master"]
  /\ remoteRead.result = lr.commits
  /\ fc.pc = "returned"
  /\ fc.result = lr.commits
  /\ pgPc = "returned"
  /\ Len(pgShas) = MaxPerPage + 1
=============================================================================
